---- MODULE Spec2Model ----
(***************************************************************************)
(* A model of the allocation and fetch routines of the investment scripts. *)
(*                                                                         *)
(* Money is held in fixed point: one unit is 1/Scale of a dollar, and      *)
(* every product-then-quotient of the Python float arithmetic is computed  *)
(* exactly and rounded down to a unit.  NaN is a value of its own, with    *)
(* the IEEE rules the code meets: every comparison with NaN is false,      *)
(* arithmetic on NaN gives NaN, 0 * inf gives NaN, and pandas' Series.sum  *)
(* skips NaN.                                                              *)
(***************************************************************************)
EXTENDS Integers, Sequences, FiniteSets, TLC

\* ------------------------------------------------------------------------
\* State
\* ------------------------------------------------------------------------

\* us_portfolio_allocation.py, apply_constraints: its arguments, its locals
\* and where it stands (pc: "loop", "returned"; converged: left by the break)
VARIABLES weights, min_allocation_pct, max_allocation_pct,
          allocation, iteration, pc, converged

\* fetch_total_return_index, one ticker's history: its locals and where it
\* stands (triPc: "loop", "appended")
VARIABLES close, dividends, total_return_index, cumulative_dividends, i, triPc

\* fetch_portfolio_state.py, main: the loop over TICKERS (ticker_idx: the
\* position of the ticker in hand, from 1), the snapshot in hand, the results,
\* the requests sent so far with what each returned, the tickers in the order
\* results[ticker] was assigned, the alerts and what the ALERTS section printed
\* (fpsPc: "snapshot", "fallback", "historical", "summary", "done")
VARIABLES ticker_idx, snapshot, results, requests, assigned, alerts, printed,
          fpsPc

\* canadian_nyse_only.py, canadian_oil_gas_high_yield.py and
\* oil_gas_comprehensive.py, fetch_total_return_index and the main that calls
\* it: the script run, the position in the tickers (from 1), dfs (each series
\* by its ticker), failed (oil_gas_comprehensive only), the history() calls
\* made with their outcomes, the frame returned to main
\* (fetchPc: "loop", "return", "main", "exit", "metrics")
VARIABLES script, fetch_idx, dfs, failed, history_calls, prices_frame, fetchPc

\* allocate.py, allocate: its arguments, the scores and 12w-2w momenta fetched
\* prices gave, the tickers selected, alloc, the passes of `for _ in
\* range(10)` done and the series returned (allocPc: "loop", "returned")
VARIABLES capital, top_n, min_w, max_w, score, mom_12w_2w, top_tickers, alloc,
          clip_passes, allocPc

\* us_portfolio_allocation.py, calculate_drawdown_metrics, one ticker: the
\* price series after dropna, the rows the duration loop has scanned, its
\* locals, the start of the next window of the rolling loop and the metrics
\* (ddPc: "scan", "rolling", "done")
VARIABLES price, scan_i, current_period_start, drawdown_periods, max_dd,
          current_dd, max_dd_duration, avg_dd_duration, rolling_i,
          rolling_3m_dd, worst_rolling_3m_dd, ddPc

\* us_portfolio_allocation.py, calculate_downside_volatility and
\* calculate_combined_score, one column: the column's returns after dropna,
\* the combined momentum, the downside volatility and the score
\* (dvPc: "volatility", "score", "done")
VARIABLES col_returns, combined_momentum, downside_vol, combined_score, dvPc

acVars == <<weights, min_allocation_pct, max_allocation_pct,
            allocation, iteration, pc, converged>>

triVars == <<close, dividends, total_return_index, cumulative_dividends, i, triPc>>

fpsVars == <<ticker_idx, snapshot, results, requests, assigned, alerts, printed,
             fpsPc>>

fetchVars == <<script, fetch_idx, dfs, failed, history_calls, prices_frame,
               fetchPc>>

allocVars == <<capital, top_n, min_w, max_w, score, mom_12w_2w, top_tickers,
               alloc, clip_passes, allocPc>>

ddVars == <<price, scan_i, current_period_start, drawdown_periods, max_dd,
            current_dd, max_dd_duration, avg_dd_duration, rolling_i,
            rolling_3m_dd, worst_rolling_3m_dd, ddPc>>

dvVars == <<col_returns, combined_momentum, downside_vol, combined_score, dvPc>>

vars == <<acVars, triVars, fpsVars, fetchVars, allocVars, ddVars, dvVars>>

\* What each routine leaves alone: the state of the other routines.
acOthers == <<triVars, fpsVars, fetchVars, allocVars, ddVars, dvVars>>

triOthers == <<acVars, fpsVars, fetchVars, allocVars, ddVars, dvVars>>

fpsOthers == <<acVars, triVars, fetchVars, allocVars, ddVars, dvVars>>

fetchOthers == <<acVars, triVars, fpsVars, allocVars, ddVars, dvVars>>

allocOthers == <<acVars, triVars, fpsVars, fetchVars, ddVars, dvVars>>

ddOthers == <<acVars, triVars, fpsVars, fetchVars, allocVars, dvVars>>

dvOthers == <<acVars, triVars, fpsVars, fetchVars, allocVars, ddVars>>

\* ------------------------------------------------------------------------
\* Bounds of the model
\* ------------------------------------------------------------------------

\* Units per dollar of the fixed-point amounts.
Scale == 100

\* Input weights are multiples of 1/WeightUnits.
WeightUnits == 10

\* ------------------------------------------------------------------------
\* us_portfolio_allocation.py: configuration
\* ------------------------------------------------------------------------

TOTAL_CAPITAL == 60000

SECTOR_CAP_PCT == 33

MaxIterations == 100

SECTOR_GOLD == {"FNV", "AEM"}

SECTOR_SILVER == {"PAAS", "HL"}

SECTOR_PRECIOUS_MIXED == {"WPM"}

SECTOR_OIL_GAS == {"XOM", "CVX", "CNQ", "SU", "CVE", "XLE", "ENB", "TRP", "KMI",
                   "WMB", "OKE", "VLO", "PSX", "MPC", "DINO", "COP", "DVN", "OXY"}

SECTOR_EX_US_VALUE == {"AVDV", "DFIV", "IVAL"}

\* The capped sectors, in the order step 3 of apply_constraints visits them.
CappedSectors == <<SECTOR_GOLD, SECTOR_SILVER, SECTOR_PRECIOUS_MIXED,
                   SECTOR_OIL_GAS, SECTOR_EX_US_VALUE>>

\* The groupings main reports on.
PRECIOUS_METALS == {"WPM", "PAAS", "FNV", "AEM", "HL"}

BITCOIN == {"MSTR"}

\* main: PRECIOUS_METALS_CAP = int(capital * 0.304), in dollars.
PRECIOUS_METALS_CAP == (TOTAL_CAPITAL * 304) \div 1000

\* main: BITCOIN_CAP = int(capital * 0.073), in dollars.
BITCOIN_CAP == (TOTAL_CAPITAL * 73) \div 1000

\* The tickers the model lets pass the momentum filter: two of one capped
\* sector, one each of two more capped sectors, and the uncapped MSTR.
TICKERS == {"FNV", "AEM", "WPM", "XOM", "MSTR"}

\* The --min-allocation and --max-allocation settings tried, in percent.
MinAllocationPcts == {5, 25}

MaxAllocationPcts == {40, 100}

\* ------------------------------------------------------------------------
\* Float arithmetic in fixed point
\* ------------------------------------------------------------------------

NaN == -1

IsNaN(x) == x = NaN

\* The digit base of MulDivQR: with amounts below 2^25 units, twice Base
\* times an amount stays inside the 32-bit integers.
Base == 32

\* <<q, r>> with a * b = q * c + r and 0 <= r < c, by long multiplication
\* over the digits of b, so that no intermediate value leaves the 32-bit
\* integers.
RECURSIVE MulDivQR(_, _, _)
MulDivQR(a, b, c) ==
    IF b = 0 THEN <<0, 0>>
    ELSE LET h  == MulDivQR(a, b \div Base, c)
             d  == b % Base
             r2 == Base * h[2] + d * (a % c)
             q2 == Base * h[1] + d * (a \div c)
         IN  <<q2 + (r2 \div c), r2 % c>>

\* x * (num / den) for a float x: NaN stays NaN.
ScaleBy(x, num, den) == IF IsNaN(x) THEN NaN ELSE MulDivQR(x, num, den)[1]

\* Python's builtin sum over floats: NaN if any term is NaN.
RECURSIVE BuiltinSum(_, _)
BuiltinSum(f, S) ==
    IF S = {} THEN 0
    ELSE LET t    == CHOOSE x \in S : TRUE
             rest == BuiltinSum(f, S \ {t})
         IN  IF IsNaN(f[t]) \/ IsNaN(rest) THEN NaN ELSE f[t] + rest

\* pandas' Series.sum(): NaN entries are skipped.
RECURSIVE SeriesSum(_, _)
SeriesSum(f, S) ==
    IF S = {} THEN 0
    ELSE LET t == CHOOSE x \in S : TRUE
         IN  (IF IsNaN(f[t]) THEN 0 ELSE f[t]) + SeriesSum(f, S \ {t})

Abs(x) == IF x < 0 THEN -x ELSE x

\* a > b and a < b on floats: false when either side is NaN.
Gt(a, b) == ~IsNaN(a) /\ ~IsNaN(b) /\ a > b

Lt(a, b) == ~IsNaN(a) /\ ~IsNaN(b) /\ a < b

\* ------------------------------------------------------------------------
\* us_portfolio_allocation.py: apply_constraints
\* ------------------------------------------------------------------------

Capital == TOTAL_CAPITAL * Scale

min_amount(minPct) == (Capital * minPct) \div 100

max_amount(maxPct) == (Capital * maxPct) \div 100

sector_cap_amount == (Capital * SECTOR_CAP_PCT) \div 100

\* The weight vectors: positive multiples of 1/WeightUnits over a non-empty
\* set of tickers, summing to 1.
RECURSIVE WeightSum(_, _)
WeightSum(w, S) ==
    IF S = {} THEN 0
    ELSE LET t == CHOOSE x \in S : TRUE IN w[t] + WeightSum(w, S \ {t})

WeightVectors ==
    UNION { { w \in [idx -> 1..WeightUnits] : WeightSum(w, idx) = WeightUnits }
            : idx \in (SUBSET TICKERS) \ {{}} }

\* Step 1: zero out positions below minimum.
ZeroBelowMin(a, minPct) ==
    [t \in DOMAIN a |->
        IF Lt(0, a[t]) /\ Lt(a[t], min_amount(minPct)) THEN 0 ELSE a[t]]

\* Step 2: cap positions above maximum.
CapAboveMax(a, maxPct) ==
    [t \in DOMAIN a |->
        IF Gt(a[t], max_amount(maxPct)) THEN max_amount(maxPct) ELSE a[t]]

\* Step 3, one sector: scale the sector's members down to the cap.
CapSector(a, sector) ==
    LET members == sector \cap DOMAIN a
        total   == BuiltinSum(a, members)
    IN  IF Gt(total, sector_cap_amount)
        THEN [t \in DOMAIN a |->
                IF t \in members
                THEN ScaleBy(a[t], sector_cap_amount, total)
                ELSE a[t]]
        ELSE a

\* Step 3: the capped sectors one after the other.
RECURSIVE CapSectors(_, _)
CapSectors(a, k) ==
    IF k > Len(CappedSectors) THEN a
    ELSE CapSectors(CapSector(a, CappedSectors[k]), k + 1)

\* Step 4: renormalize to TOTAL_CAPITAL when more than $1 off.  A total of 0
\* makes the factor infinite, and every entry (0 or NaN) times inf is NaN.
NeedsRenormalize(a) ==
    Abs(SeriesSum(a, DOMAIN a) - Capital) > Scale

Renormalize(a) ==
    LET current_total == SeriesSum(a, DOMAIN a)
    IN  IF ~NeedsRenormalize(a) THEN a
        ELSE IF current_total = 0 THEN [t \in DOMAIN a |-> NaN]
        ELSE [t \in DOMAIN a |-> ScaleBy(a[t], Capital, current_total)]

\* One pass of the loop body: <<allocation after the pass, changed>>.
OnePass(a, minPct, maxPct) ==
    LET s1 == ZeroBelowMin(a, minPct)
        s2 == CapAboveMax(s1, maxPct)
        s3 == CapSectors(s2, 1)
        s4 == Renormalize(s3)
        \* every step that assigns also changes a value: a zeroed amount was
        \* positive, a capped one was above the cap, a scaled sector summed to
        \* more than it does afterwards
    IN  <<s4, s1 # a \/ s2 # s1 \/ s3 # s2 \/ NeedsRenormalize(s3)>>

ACInit ==
    /\ weights \in WeightVectors
    /\ min_allocation_pct \in MinAllocationPcts
    /\ max_allocation_pct \in MaxAllocationPcts
    /\ allocation = [t \in DOMAIN weights |->
                        (weights[t] * Capital) \div WeightUnits]
    /\ iteration = 0
    /\ pc = "loop"
    /\ converged = FALSE

\* One iteration of `for iteration in range(100)`, with its break.
Pass ==
    /\ pc = "loop"
    /\ iteration < MaxIterations
    /\ \E r \in {OnePass(allocation, min_allocation_pct, max_allocation_pct)} :
           /\ allocation' = r[1]
           /\ iteration' = iteration + 1
           /\ converged' = ~r[2]
           /\ pc' = IF r[2] THEN "loop" ELSE "returned"
    /\ UNCHANGED <<weights, min_allocation_pct, max_allocation_pct>>
    /\ UNCHANGED acOthers

\* range(100) is used up: the loop ends without the break.
Exhaust ==
    /\ pc = "loop"
    /\ iteration = MaxIterations
    /\ pc' = "returned"
    /\ UNCHANGED <<weights, min_allocation_pct, max_allocation_pct,
                   allocation, iteration, converged>>
    /\ UNCHANGED acOthers

ACIdle ==
    /\ weights = <<>>
    /\ min_allocation_pct = 0
    /\ max_allocation_pct = 0
    /\ allocation = <<>>
    /\ iteration = 0
    /\ pc = "idle"
    /\ converged = FALSE

\* ------------------------------------------------------------------------
\* Exact rationals <<numerator, denominator>>, denominator > 0
\* ------------------------------------------------------------------------

FromInt(n) == <<n, 1>>

RatAdd(x, y) == <<x[1] * y[2] + y[1] * x[2], x[2] * y[2]>>

RatSub(x, y) == <<x[1] * y[2] - y[1] * x[2], x[2] * y[2]>>

RatMul(x, y) == <<x[1] * y[1], x[2] * y[2]>>

RatEq(x, y) == x[1] * y[2] = y[1] * x[2]

RatGe(x, y) == x[1] * y[2] >= y[1] * x[2]

\* ------------------------------------------------------------------------
\* us_portfolio_allocation.py, portfolio_simulation.py:
\* fetch_total_return_index, the index built from one ticker's history
\* ------------------------------------------------------------------------

\* Rows of a history, and the closes and dividends tried (0 is a close of 0).
MaxRows == 3

MaxClose == 3

MaxDividend == 2

\* div_yield = dividends.iloc[i] / close.iloc[i-1] if close.iloc[i-1] != 0 else 0
\* (row i of Python is element i + 1 of the sequence)
DivYield(cl, dv, row) ==
    IF cl[row] # 0 THEN <<dv[row + 1], cl[row]>> ELSE FromInt(0)

\* cumulative_dividends = (1 + cumulative_dividends) * (1 + div_yield) - 1
NextCumulativeAdditive(cum, div_yield) == RatAdd(cum, div_yield)

NextCumulative(cum, div_yield) ==
    RatSub(RatMul(RatAdd(FromInt(1), cum), RatAdd(FromInt(1), div_yield)),
           FromInt(1))

TRIInit ==
    /\ \E n \in 1..MaxRows :
          /\ close \in [1..n -> 0..MaxClose]
          /\ dividends \in [1..n -> 0..MaxDividend]
    /\ total_return_index = [j \in DOMAIN close |-> FromInt(close[j])]
    /\ cumulative_dividends = FromInt(0)
    /\ i = 0
    /\ triPc = "loop"

\* One iteration of `for i in range(len(close))`.
TRIStep ==
    /\ triPc = "loop"
    /\ i < Len(close)
    /\ IF i > 0
       THEN \E cum \in {NextCumulative(cumulative_dividends,
                                       DivYield(close, dividends, i))} :
                /\ cumulative_dividends' = cum
                /\ total_return_index' =
                      [total_return_index EXCEPT
                          ![i + 1] = RatMul(FromInt(close[i + 1]),
                                            RatAdd(FromInt(1), cum))]
       ELSE UNCHANGED <<cumulative_dividends, total_return_index>>
    /\ i' = i + 1
    /\ UNCHANGED <<close, dividends, triPc>>
    /\ UNCHANGED triOthers

\* dfs.append(total_return_index.rename(ticker))
TRIAppend ==
    /\ triPc = "loop"
    /\ i = Len(close)
    /\ triPc' = "appended"
    /\ UNCHANGED <<close, dividends, total_return_index, cumulative_dividends, i>>
    /\ UNCHANGED triOthers

TRIIdle ==
    /\ close = <<>>
    /\ dividends = <<>>
    /\ total_return_index = <<>>
    /\ cumulative_dividends = FromInt(0)
    /\ i = 0
    /\ triPc = "idle"

\* ------------------------------------------------------------------------
\* fetch_portfolio_state.py: main
\* ------------------------------------------------------------------------

\* How many of the portfolio tickers the model runs through.
NumTickers == 3

PORTFOLIO_TICKERS == <<"PAAS", "HL", "AEM", "WPM", "FNV", "XOM", "SU", "AVDV",
                       "DFIV", "IVAL", "MSTR">>

Tickers == SubSeq(PORTFOLIO_TICKERS, 1, NumTickers)

\* Prices are in percent of the ticker's reference price, which is positive
\* for every portfolio ticker.
REFERENCE_PRICE == 100

PricePcts == {100, 130}

\* The <<return_3m, return_6m>> a non-empty price history can give.
ReturnPairs == {<<5, 5>>, <<-5, 5>>}

None == [none |-> TRUE]

\* `not x` of Python for the values met here: None and the empty dict.
Falsy(x) == x = None \/ x = [empty |-> TRUE]

\* The answers of GET /prices/snapshot: a status and, in the body, a snapshot
\* or none.
SnapshotResponses ==
    [status : {200}, body : {None} \cup [price : PricePcts]]
        \cup [status : {404}, body : {None}]

\* fetch_snapshot: the body's snapshot on 200, else None.
fetch_snapshot(response) ==
    IF response.status = 200 THEN response.body ELSE None

\* The answers of GET /prices: a status and the price list, given by the
\* returns main derives from it (an empty list gives none).
HistoricalResponses ==
    [status : {200}, empty : {FALSE}, returns : ReturnPairs]
        \cup [status : {200, 404}, empty : {TRUE}, returns : {<<0, 0>>}]

\* fetch_historical_prices: the list on 200, else [].
fetch_historical_prices(response) ==
    IF response.status = 200 THEN response
    ELSE [status |-> response.status, empty |-> TRUE, returns |-> <<0, 0>>]

\* The outcomes of yfinance's history(): it raises, it is empty, or it has
\* rows, given by the price and returns fetch_yfinance_data derives.
YFinanceOutcomes ==
    [kind : {"raises", "empty"}] \cup
    [kind : {"rows"}, price : PricePcts, returns : ReturnPairs]

\* fetch_yfinance_data: a dict from a non-empty history, None when the
\* history is empty or anything raises.
fetch_yfinance_data(outcome) ==
    IF outcome.kind = "rows"
    THEN [price |-> outcome.price, return_3m |-> outcome.returns[1],
          return_6m |-> outcome.returns[2]]
    ELSE None

\* within_range, from the reference price.
WithinRange(current_price, ref_price) ==
    IF ref_price > 0
    THEN /\ ref_price * 80 <= current_price * 100
         /\ current_price * 100 <= ref_price * 120
    ELSE TRUE

\* The two places the loop goes on from: after `if not snapshot`, and after
\* a ticker with no data from either source (`continue`).
AfterSnapshotAlwaysFallback(snap) == "fallback"

AfterSnapshot(snap) == IF Falsy(snap) THEN "fallback" ELSE "historical"

AfterSkipBreak(idx) == NumTickers + 1

AfterSkip(idx) == idx + 1

\* Where the loop stands with the next ticker, or past the last one.
LoopPc(idx) == IF idx > NumTickers THEN "summary" ELSE "snapshot"

FPSInit ==
    /\ ticker_idx = 1
    /\ snapshot = None
    /\ results = <<>>
    /\ requests = <<>>
    /\ assigned = <<>>
    /\ alerts = <<>>
    /\ printed = "nothing"
    /\ fpsPc = "snapshot"

\* snapshot = fetch_snapshot(ticker); if not snapshot: ...
FetchSnapshot ==
    /\ fpsPc = "snapshot"
    /\ \E response \in SnapshotResponses :
          /\ snapshot' = fetch_snapshot(response)
          /\ requests' = Append(requests,
                [endpoint |-> "snapshot", ticker |-> Tickers[ticker_idx],
                 status |-> response.status,
                 returned |-> ~Falsy(fetch_snapshot(response))])
          /\ fpsPc' = AfterSnapshot(fetch_snapshot(response))
    /\ UNCHANGED <<ticker_idx, results, assigned, alerts, printed>>
    /\ UNCHANGED fpsOthers

\* The yfinance fallback: record the ticker with source "yfinance" and
\* continue, or skip it.
YFinanceFallback ==
    /\ fpsPc = "fallback"
    /\ \E outcome \in YFinanceOutcomes :
          LET ticker  == Tickers[ticker_idx]
              yf_data == fetch_yfinance_data(outcome)
          IN  /\ requests' = Append(requests,
                    [endpoint |-> "yfinance", ticker |-> ticker,
                     status |-> 0, returned |-> ~Falsy(yf_data)])
              /\ IF ~Falsy(yf_data)
                 THEN /\ results' = (ticker :>
                            [current_price |-> yf_data.price,
                             within_range |->
                                WithinRange(yf_data.price, REFERENCE_PRICE),
                             return_3m |-> yf_data.return_3m,
                             return_6m |-> yf_data.return_6m,
                             momentum_positive |->
                                yf_data.return_3m > 0 /\ yf_data.return_6m > 0,
                             source |-> "yfinance"]) @@ results
                      /\ assigned' = Append(assigned, ticker)
                      /\ ticker_idx' = ticker_idx + 1
                 ELSE /\ UNCHANGED <<results, assigned>>
                      /\ ticker_idx' = AfterSkip(ticker_idx)
    /\ fpsPc' = LoopPc(ticker_idx')
    /\ UNCHANGED <<snapshot, alerts, printed>>
    /\ UNCHANGED fpsOthers

\* The snapshot path: the historical prices, the returns, the entry (which
\* has no "source" key).
FetchHistorical ==
    /\ fpsPc = "historical"
    /\ \E response \in HistoricalResponses :
          LET ticker == Tickers[ticker_idx]
              prices == fetch_historical_prices(response)
              return_3m == IF prices.empty THEN 0 ELSE prices.returns[1]
              return_6m == IF prices.empty THEN 0 ELSE prices.returns[2]
          IN  /\ requests' = Append(requests,
                    [endpoint |-> "prices", ticker |-> ticker,
                     status |-> response.status, returned |-> ~prices.empty])
              /\ results' = (ticker :>
                    [current_price |-> snapshot.price,
                     within_range |->
                        WithinRange(snapshot.price, REFERENCE_PRICE),
                     return_3m |-> return_3m,
                     return_6m |-> return_6m,
                     momentum_positive |-> return_3m > 0 /\ return_6m > 0,
                     source |-> "absent"]) @@ results
              /\ assigned' = Append(assigned, ticker)
    /\ ticker_idx' = ticker_idx + 1
    /\ fpsPc' = LoopPc(ticker_idx')
    /\ UNCHANGED <<snapshot, alerts, printed>>
    /\ UNCHANGED fpsOthers

\* The alerts of one entry, in the order main appends them.
AlertsOf(ticker, data) ==
    (IF ~data.within_range THEN <<<<"PRICE ALERT", ticker>>>> ELSE <<>>) \o
    (IF ~data.momentum_positive THEN <<<<"MOMENTUM ALERT", ticker>>>> ELSE <<>>)

\* The alerts over results.items(), which keeps the order of insertion.
RECURSIVE AlertsOver(_, _)
AlertsOver(res, order) ==
    IF order = <<>> THEN <<>>
    ELSE AlertsOf(Head(order), res[Head(order)]) \o AlertsOver(res, Tail(order))

\* After the loop: the tables, then the ALERTS section.
Summary ==
    /\ fpsPc = "summary"
    /\ alerts' = AlertsOver(results, assigned)
    /\ printed' = IF alerts' # <<>> THEN "alerts" ELSE "no alerts"
    /\ fpsPc' = "done"
    /\ UNCHANGED <<ticker_idx, snapshot, results, requests, assigned>>
    /\ UNCHANGED fpsOthers

FPSIdle ==
    /\ ticker_idx = 0
    /\ snapshot = None
    /\ results = <<>>
    /\ requests = <<>>
    /\ assigned = <<>>
    /\ alerts = <<>>
    /\ printed = "nothing"
    /\ fpsPc = "idle"

\* ------------------------------------------------------------------------
\* canadian_nyse_only.py, canadian_oil_gas_high_yield.py,
\* oil_gas_comprehensive.py: fetch_total_return_index with try/except, main
\* ------------------------------------------------------------------------

\* How many tickers the model passes to fetch_total_return_index.
NumFetched == 4

Scripts == {"canadian_nyse_only", "canadian_oil_gas_high_yield",
            "oil_gas_comprehensive"}

ALL_TICKERS == <<"IPOOF", "ZPTAF", "CRLFF", "PTRUF", "ENB", "WCPRF", "CNQ",
                 "SU", "CVE", "TRP">>

FetchTickers == SubSeq(ALL_TICKERS, 1, NumFetched)

\* What t.history(period) does for a ticker: it raises, it returns an empty
\* frame, or it returns rows.
HistoryOutcomes == {"raises", "empty", "rows"}

\* dfs after the body of the try for one ticker.
DfsAfter(d, ticker, outcome) ==
    IF outcome = "rows" THEN Append(d, ticker) ELSE d

\* failed after one ticker: oil_gas_comprehensive appends the ticker in the
\* else of `if not hist.empty` and in the except; the other two only print.
FailedAfter(scr, f, ticker, outcome) ==
    IF scr = "oil_gas_comprehensive" /\ outcome # "rows"
    THEN Append(f, ticker) ELSE f

\* Where the loop goes on after the except clause: `continue`.
AfterExceptBreak(idx) == NumFetched + 1

AfterExcept(idx) == idx + 1

\* DataFrame.empty: no column, or no row.
FrameEmpty(frame) == frame.columns = <<>> \/ frame.rows = 0

FetchInit ==
    /\ script \in Scripts
    /\ fetch_idx = 1
    /\ dfs = <<>>
    /\ failed = <<>>
    /\ history_calls = <<>>
    /\ prices_frame = [columns |-> <<>>, rows |-> 0]
    /\ fetchPc = "loop"

\* One iteration of `for ticker in tickers`, with its try/except.
FetchHistory ==
    /\ fetchPc = "loop"
    /\ fetch_idx <= NumFetched
    /\ \E outcome \in HistoryOutcomes :
          LET ticker == FetchTickers[fetch_idx]
          IN  /\ history_calls' = Append(history_calls,
                                         [ticker |-> ticker, outcome |-> outcome])
              /\ dfs' = DfsAfter(dfs, ticker, outcome)
              /\ failed' = FailedAfter(script, failed, ticker, outcome)
              /\ fetch_idx' = IF outcome = "raises"
                              THEN AfterExcept(fetch_idx)
                              ELSE fetch_idx + 1
    /\ UNCHANGED <<script, prices_frame, fetchPc>>
    /\ UNCHANGED fetchOthers

\* After the loop: an empty DataFrame when dfs is empty, else
\* pd.concat(dfs, axis=1).dropna(), whose columns are those of dfs and whose
\* rows are the dates no series lacks (there may be none).
ReturnFrame ==
    /\ fetchPc = "loop"
    /\ fetch_idx > NumFetched
    /\ IF dfs = <<>>
       THEN prices_frame' = [columns |-> <<>>, rows |-> 0]
       ELSE \E rows \in 0..1 : prices_frame' = [columns |-> dfs, rows |-> rows]
    /\ fetchPc' = "main"
    /\ UNCHANGED <<script, fetch_idx, dfs, failed, history_calls>>
    /\ UNCHANGED fetchOthers

\* main: `if prices.empty:` print the error and return; else the metrics.
MainAfterFetch ==
    /\ fetchPc = "main"
    /\ fetchPc' = IF FrameEmpty(prices_frame) THEN "exit" ELSE "metrics"
    /\ UNCHANGED <<script, fetch_idx, dfs, failed, history_calls, prices_frame>>
    /\ UNCHANGED fetchOthers

FetchIdle ==
    /\ script = "none"
    /\ fetch_idx = 0
    /\ dfs = <<>>
    /\ failed = <<>>
    /\ history_calls = <<>>
    /\ prices_frame = [columns |-> <<>>, rows |-> 0]
    /\ fetchPc = "idle"

\* ------------------------------------------------------------------------
\* allocate.py: allocate
\* ------------------------------------------------------------------------

\* The 12w-2w momenta tried run from -1 to MaxMomentum (in percent).
MaxMomentum == 3

\* The --capital default, in dollars.
DEFAULT_CAPITAL == 73296

ClipPasses == 10

RoundTo == 1000

\* The tickers the model fetches prices for.
AllocTickers == {"PPLT", "WPM", "FNV"}

\* The --top-n values tried, and the <<min_w, max_w>> settings in percent:
\* the defaults, and a pair every top_n tried can satisfy.
TopNs == {2, 3}

WeightSettings == {<<5, 30>>, <<0, 50>>}

\* The scores: every ranking of the tickers.
Scores ==
    {sc \in [AllocTickers -> 1..Cardinality(AllocTickers)] :
        \A t, u \in AllocTickers : sc[t] = sc[u] => t = u}

\* score.nlargest(top_n).index
NLargest(sc, n) ==
    {t \in DOMAIN sc : Cardinality({u \in DOMAIN sc : sc[u] > sc[t]}) < n}

\* mom_12w_2w[top_tickers].clip(lower=0)
ClipLower(mom, tickers) ==
    [t \in tickers |-> IF mom[t] < 0 THEN 0 ELSE mom[t]]

\* (alloc_mom / alloc_mom.sum()) * capital: 0 / 0 is NaN.
InitialAlloc(alloc_mom, cap) ==
    LET total == WeightSum(alloc_mom, DOMAIN alloc_mom)
    IN  [t \in DOMAIN alloc_mom |->
            IF total = 0 THEN NaN ELSE ScaleBy(alloc_mom[t], cap, total)]

\* capital * min_w, capital * max_w
WeightAmount(cap, pct) == (cap * pct) \div 100

\* alloc[alloc < capital * min_w] = capital * min_w
RaiseToMin(a, cap, minw) ==
    [t \in DOMAIN a |->
        IF Lt(a[t], WeightAmount(cap, minw)) THEN WeightAmount(cap, minw)
        ELSE a[t]]

\* alloc[alloc > capital * max_w] = capital * max_w
LowerToMax(a, cap, maxw) ==
    [t \in DOMAIN a |->
        IF Gt(a[t], WeightAmount(cap, maxw)) THEN WeightAmount(cap, maxw)
        ELSE a[t]]

\* alloc *= capital / alloc.sum(): a sum of 0 makes the factor infinite.
Rescale(a, cap) ==
    LET total == SeriesSum(a, DOMAIN a)
    IN  [t \in DOMAIN a |->
            IF total = 0 THEN NaN ELSE ScaleBy(a[t], cap, total)]

\* One pass of `for _ in range(10)`.
ClipAndRescale(a, cap, minw, maxw) ==
    Rescale(LowerToMax(RaiseToMin(a, cap, minw), cap, maxw), cap)

\* (alloc / 1000).round() * 1000: to the nearest thousand, halves to even.
RoundToThousand(x) ==
    IF IsNaN(x) THEN NaN
    ELSE LET unit == RoundTo * Scale
             q    == x \div unit
             r    == x % unit
         IN  IF 2 * r < unit THEN q * unit
             ELSE IF 2 * r > unit THEN (q + 1) * unit
             ELSE IF q % 2 = 0 THEN q * unit
             ELSE (q + 1) * unit

AllocInit ==
    /\ capital = DEFAULT_CAPITAL * Scale
    /\ top_n \in TopNs
    /\ \E w \in WeightSettings : min_w = w[1] /\ max_w = w[2]
    /\ score \in Scores
    /\ mom_12w_2w \in [AllocTickers -> (-1)..MaxMomentum]
    /\ top_tickers = NLargest(score, top_n)
    /\ alloc = InitialAlloc(ClipLower(mom_12w_2w, top_tickers), capital)
    /\ clip_passes = 0
    /\ allocPc = "loop"

\* One iteration of `for _ in range(10)`.
ClipPass ==
    /\ allocPc = "loop"
    /\ clip_passes < ClipPasses
    /\ alloc' = ClipAndRescale(alloc, capital, min_w, max_w)
    /\ clip_passes' = clip_passes + 1
    /\ UNCHANGED <<capital, top_n, min_w, max_w, score, mom_12w_2w,
                   top_tickers, allocPc>>
    /\ UNCHANGED allocOthers

\* return (alloc / 1000).round() * 1000, scores
ReturnAlloc ==
    /\ allocPc = "loop"
    /\ clip_passes = ClipPasses
    /\ alloc' = [t \in DOMAIN alloc |-> RoundToThousand(alloc[t])]
    /\ allocPc' = "returned"
    /\ UNCHANGED <<capital, top_n, min_w, max_w, score, mom_12w_2w,
                   top_tickers, clip_passes>>
    /\ UNCHANGED allocOthers

AllocIdle ==
    /\ capital = 0
    /\ top_n = 0
    /\ min_w = 0
    /\ max_w = 0
    /\ score = <<>>
    /\ mom_12w_2w = <<>>
    /\ top_tickers = {}
    /\ alloc = <<>>
    /\ clip_passes = 0
    /\ allocPc = "idle"

\* ------------------------------------------------------------------------
\* us_portfolio_allocation.py: calculate_drawdown_metrics, one ticker
\* ------------------------------------------------------------------------

\* Rows of a price series and the prices tried (prices are positive).
MaxPriceRows == 5

MaxPrice == 3

\* The rows of a rolling window: 63 in the code, scaled down with the series.
window == 2

\* current_period_start = None
NoPeriod == -1

PriceSeries == UNION { [1..n -> 1..MaxPrice] : n \in 1..MaxPriceRows }

\* price.cummax() at a row (row r of Python is element r + 1).
RECURSIVE RunningMax(_, _)
RunningMax(pr, row) ==
    IF row = 0 THEN pr[1]
    ELSE LET before == RunningMax(pr, row - 1)
         IN  IF pr[row + 1] > before THEN pr[row + 1] ELSE before

\* (price - running_max) / running_max at a row, as an exact fraction.
Drawdown(pr, row) ==
    <<pr[row + 1] - RunningMax(pr, row), RunningMax(pr, row)>>

\* The least of a non-empty set of fractions.
RatMin(fractions) ==
    CHOOSE d \in fractions : \A e \in fractions : RatGe(e, d)

\* drawdown.min() of a series
SeriesMaxDrawdown(pr) ==
    RatMin({Drawdown(pr, row) : row \in 0..(Len(pr) - 1)})

\* in_drawdown = drawdown < 0
InDrawdown(pr, row) == pr[row + 1] < RunningMax(pr, row)

\* ((window_prices - window_max) / window_max).min() of price.iloc[lo:hi]
WindowDrawdown(pr, lo, hi) == SeriesMaxDrawdown(SubSeq(pr, lo + 1, hi))

RECURSIVE SeqMax(_)
SeqMax(q) ==
    IF Len(q) = 1 THEN q[1]
    ELSE LET rest == SeqMax(Tail(q))
         IN  IF q[1] > rest THEN q[1] ELSE rest

RECURSIVE SeqSum(_)
SeqSum(q) == IF q = <<>> THEN 0 ELSE q[1] + SeqSum(Tail(q))

\* The series, and what is computed from it before the duration loop.
DDInit ==
    /\ price \in PriceSeries
    /\ max_dd = SeriesMaxDrawdown(price)
    /\ current_dd = Drawdown(price, Len(price) - 1)
    /\ scan_i = 0
    /\ current_period_start = NoPeriod
    /\ drawdown_periods = <<>>
    /\ max_dd_duration = 0
    /\ avg_dd_duration = FromInt(0)
    /\ rolling_i = window
    /\ rolling_3m_dd = <<>>
    /\ worst_rolling_3m_dd = FromInt(0)
    /\ ddPc = "scan"

\* One iteration of `for i, (date, is_dd) in enumerate(in_drawdown.items())`.
ScanRow ==
    /\ ddPc = "scan"
    /\ scan_i < Len(price)
    /\ LET is_dd == InDrawdown(price, scan_i)
       IN  IF is_dd /\ current_period_start = NoPeriod
           THEN /\ current_period_start' = scan_i
                /\ UNCHANGED drawdown_periods
           ELSE IF ~is_dd /\ current_period_start # NoPeriod
           THEN /\ drawdown_periods' =
                      Append(drawdown_periods, scan_i - current_period_start)
                /\ current_period_start' = NoPeriod
           ELSE UNCHANGED <<current_period_start, drawdown_periods>>
    /\ scan_i' = scan_i + 1
    /\ UNCHANGED <<price, max_dd, current_dd, max_dd_duration,
                   avg_dd_duration, rolling_i, rolling_3m_dd,
                   worst_rolling_3m_dd, ddPc>>
    /\ UNCHANGED ddOthers

\* After the loop: the period still open is counted to the end, then the
\* longest and the mean duration.
ClosePeriods ==
    /\ ddPc = "scan"
    /\ scan_i = Len(price)
    /\ drawdown_periods' =
          IF current_period_start # NoPeriod
          THEN Append(drawdown_periods, Len(price) - current_period_start)
          ELSE drawdown_periods
    /\ max_dd_duration' =
          IF drawdown_periods' # <<>> THEN SeqMax(drawdown_periods') ELSE 0
    /\ avg_dd_duration' =
          IF drawdown_periods' # <<>>
          THEN <<SeqSum(drawdown_periods'), Len(drawdown_periods')>>
          ELSE FromInt(0)
    /\ ddPc' = "rolling"
    /\ UNCHANGED <<price, scan_i, current_period_start, max_dd, current_dd,
                   rolling_i, rolling_3m_dd, worst_rolling_3m_dd>>
    /\ UNCHANGED ddOthers

\* One iteration of `for i in range(window, len(price))`.
RollWindow ==
    /\ ddPc = "rolling"
    /\ rolling_i < Len(price)
    /\ rolling_3m_dd' =
          Append(rolling_3m_dd,
                 WindowDrawdown(price, rolling_i - window, rolling_i))
    /\ rolling_i' = rolling_i + 1
    /\ UNCHANGED <<price, scan_i, current_period_start, drawdown_periods,
                   max_dd, current_dd, max_dd_duration, avg_dd_duration,
                   worst_rolling_3m_dd, ddPc>>
    /\ UNCHANGED ddOthers

\* worst_rolling_3m_dd = min(rolling_3m_dd) if rolling_3m_dd else max_dd
ReturnMetrics ==
    /\ ddPc = "rolling"
    /\ rolling_i >= Len(price)
    /\ worst_rolling_3m_dd' =
          IF rolling_3m_dd # <<>>
          THEN RatMin({rolling_3m_dd[k] : k \in 1..Len(rolling_3m_dd)})
          ELSE max_dd
    /\ ddPc' = "done"
    /\ UNCHANGED <<price, scan_i, current_period_start, drawdown_periods,
                   max_dd, current_dd, max_dd_duration, avg_dd_duration,
                   rolling_i, rolling_3m_dd>>
    /\ UNCHANGED ddOthers

DDIdle ==
    /\ price = <<>>
    /\ scan_i = 0
    /\ current_period_start = NoPeriod
    /\ drawdown_periods = <<>>
    /\ max_dd = FromInt(0)
    /\ current_dd = FromInt(0)
    /\ max_dd_duration = 0
    /\ avg_dd_duration = FromInt(0)
    /\ rolling_i = 0
    /\ rolling_3m_dd = <<>>
    /\ worst_rolling_3m_dd = FromInt(0)
    /\ ddPc = "idle"

\* ------------------------------------------------------------------------
\* us_portfolio_allocation.py: calculate_downside_volatility and the
\* division of calculate_combined_score, one column
\* ------------------------------------------------------------------------

\* Rows of a returns column, and the daily returns tried, in percent.
MaxReturns == 4

\* The largest daily loss tried, in percent.
MaxLoss == 2

MaxReturnPct == 1

ReturnColumns ==
    UNION { [1..n -> (-MaxLoss)..MaxReturnPct] : n \in 0..MaxReturns }

\* A volatility is held by its square, a fraction <<numerator, denominator>>
\* in percent squared; 0/0 is NaN.
IsNaNFraction(x) == x[2] = 0

\* The fallback of a column with no negative return: 0.0001, squared.
NoDownsideSquared == <<1, 10000>>

\* What the rounding of the mean can leave of the deviations of three or
\* more identical values: nothing, or a few units in the last place.
RoundingResidue == <<1, 1000000>>

\* col_returns[col_returns < 0]
NegativeReturns(col) == SelectSeq(col, LAMBDA x : x < 0)

RECURSIVE SumOfSquares(_)
SumOfSquares(q) == IF q = <<>> THEN 0 ELSE q[1] * q[1] + SumOfSquares(Tail(q))

\* Series.std() squared, with its default ddof = 1: the squared deviations
\* from the mean over n - 1, which is 0/0 for a single value.
SampleVariance(q) ==
    LET n == Len(q)
    IN  <<n * SumOfSquares(q) - SeqSum(q) * SeqSum(q), n * (n - 1)>>

\* The values negative_returns.std() can take, squared: exact, but for the
\* rounding of the mean of three or more identical values.
StdSquared(q) ==
    IF Len(q) >= 3 /\ SampleVariance(q)[1] = 0
    THEN {SampleVariance(q), RoundingResidue}
    ELSE {SampleVariance(q)}

\* std() * np.sqrt(252), squared
Annualized(x) == <<252 * x[1], x[2]>>

\* combined_momentum / downside_vol as pandas divides floats: x / NaN and
\* 0 / 0 are NaN, x / 0 is infinite.
Divide(momentum, vol) ==
    IF IsNaNFraction(vol) THEN "nan"
    ELSE IF vol[1] = 0 THEN (IF momentum = 0 THEN "nan" ELSE "inf")
    ELSE "finite"

DVInit ==
    /\ col_returns \in ReturnColumns
    /\ combined_momentum \in {-1, 0, 1}
    /\ downside_vol = FromInt(0)
    /\ combined_score = "unset"
    /\ dvPc = "volatility"

\* The body of `for col in returns.columns`.
DownsideVolatility ==
    /\ dvPc = "volatility"
    /\ LET negative_returns == NegativeReturns(col_returns)
       IN  IF Len(negative_returns) > 0
           THEN \E sq \in StdSquared(negative_returns) :
                    downside_vol' = Annualized(sq)
           ELSE downside_vol' = NoDownsideSquared
    /\ dvPc' = "score"
    /\ UNCHANGED <<col_returns, combined_momentum, combined_score>>
    /\ UNCHANGED dvOthers

\* score = combined_momentum / downside_vol
CombinedScore ==
    /\ dvPc = "score"
    /\ combined_score' = Divide(combined_momentum, downside_vol)
    /\ dvPc' = "done"
    /\ UNCHANGED <<col_returns, combined_momentum, downside_vol>>
    /\ UNCHANGED dvOthers

DVIdle ==
    /\ col_returns = <<>>
    /\ combined_momentum = 0
    /\ downside_vol = FromInt(0)
    /\ combined_score = "unset"
    /\ dvPc = "idle"

\* ------------------------------------------------------------------------
\* Properties of apply_constraints (specification Spec)
\* ------------------------------------------------------------------------

Returned == pc = "returned"

SectorTotal(a, sector) == BuiltinSum(a, sector \cap DOMAIN a)

\* C1: for every weight vector and every min/max setting the loop of
\* apply_constraints leaves through the 'nothing changed' break within its
\* 100 passes, and never by running out of passes.
C1_LoopConverges == Returned => converged

\* C2: in the allocation returned by apply_constraints no position exceeds
\* max_allocation_pct * TOTAL_CAPITAL.
C2_NoPositionAboveMax ==
    Returned => \A t \in DOMAIN allocation :
                    ~Gt(allocation[t], max_amount(max_allocation_pct))

\* C3: in the allocation returned by apply_constraints the combined
\* allocation of each capped sector is at most 33% of TOTAL_CAPITAL.
C3_SectorsWithinCap ==
    Returned => \A k \in 1..Len(CappedSectors) :
                    ~Gt(SectorTotal(allocation, CappedSectors[k]),
                        sector_cap_amount)

\* C4: in the allocation returned by apply_constraints every position is
\* exactly 0 or at least min_allocation_pct * TOTAL_CAPITAL.
C4_ZeroOrAtLeastMin ==
    Returned => \A t \in DOMAIN allocation :
                    \/ allocation[t] = 0
                    \/ /\ ~IsNaN(allocation[t])
                       /\ allocation[t] >= min_amount(min_allocation_pct)

\* C5: the allocations returned by apply_constraints are defined numbers
\* that sum to TOTAL_CAPITAL within $1.
C5_DefinedAndSumsToCapital ==
    Returned => /\ \A t \in DOMAIN allocation : ~IsNaN(allocation[t])
                /\ Abs(SeriesSum(allocation, DOMAIN allocation) - Capital)
                      <= Scale

\* C12: in the allocation apply_constraints returns to main the precious
\* metals tickers (WPM, PAAS, FNV, AEM, HL) together hold at most
\* PRECIOUS_METALS_CAP.
C12_PreciousMetalsWithinCap ==
    Returned => ~Gt(SectorTotal(allocation, PRECIOUS_METALS),
                    PRECIOUS_METALS_CAP * Scale)

\* C13: in the allocation apply_constraints returns to main MSTR holds at
\* most BITCOIN_CAP, whatever its weight among the tickers.
C13_BitcoinWithinCap ==
    Returned => ~Gt(SectorTotal(allocation, BITCOIN), BITCOIN_CAP * Scale)

\* ------------------------------------------------------------------------
\* Properties of the total return index (specification SpecTRI)
\* ------------------------------------------------------------------------

\* The product over k = 1..row of (1 + dividend[k] / close[k-1]), a step
\* whose previous close is 0 contributing 1 (rows counted from 0, row r
\* being element r + 1 of the sequences).
RECURSIVE ReinvestmentFactor(_, _, _)
ReinvestmentFactor(cl, dv, row) ==
    IF row = 0 THEN FromInt(1)
    ELSE RatMul(ReinvestmentFactor(cl, dv, row - 1),
                IF cl[row] # 0
                THEN RatAdd(FromInt(1), <<dv[row + 1], cl[row]>>)
                ELSE FromInt(1))

\* C6: for every row the loop has passed, index[0] = close[0] and
\* index[row] = close[row] * product over k = 1..row of
\* (1 + dividend[k] / close[k-1]); the index equals the close series when
\* all dividends are 0 and is never below close.
C6_IndexIsReinvestedClose ==
    \A row \in 0..(Len(close) - 1) :
        /\ row < i =>
              RatEq(total_return_index[row + 1],
                    RatMul(FromInt(close[row + 1]),
                           ReinvestmentFactor(close, dividends, row)))
        /\ row = 0 => total_return_index[1] = FromInt(close[1])
        /\ (\A k \in DOMAIN dividends : dividends[k] = 0) =>
              RatEq(total_return_index[row + 1], FromInt(close[row + 1]))
        /\ RatGe(total_return_index[row + 1], FromInt(close[row + 1]))

\* A three-row history with two dividends has been compounded into an index
\* above the last close.
C6_Witness ==
    /\ triPc = "appended"
    /\ Len(close) = 3
    /\ \A k \in 1..3 : close[k] > 0
    /\ dividends[2] > 0
    /\ dividends[3] > 0
    /\ ~RatGe(FromInt(close[3]), total_return_index[3])

\* ------------------------------------------------------------------------
\* Properties of fetch_portfolio_state.main (specification SpecFPS)
\* ------------------------------------------------------------------------

RequestsTo(endpoint) == SelectSeq(requests, LAMBDA r : r.endpoint = endpoint)

\* The source gave data for the ticker: the request returned a snapshot, or
\* the fallback returned a dict.
GaveData(endpoint, ticker) ==
    \E p \in 1..Len(requests) :
        /\ requests[p].endpoint = endpoint
        /\ requests[p].ticker = ticker
        /\ requests[p].returned

\* The tickers the loop is through with.
TickersDone ==
    IF fpsPc \in {"fallback", "historical"} THEN ticker_idx - 1
    ELSE IF fpsPc \in {"summary", "done"} THEN NumTickers
    ELSE ticker_idx - 1

C8_FallbackOnlyAfterFailedSnapshot ==
    /\ \A p \in 1..Len(requests) :
          requests[p].endpoint \in {"yfinance", "prices"} =>
              /\ p > 1
              /\ requests[p - 1].endpoint = "snapshot"
              /\ requests[p - 1].ticker = requests[p].ticker
              /\ requests[p - 1].returned = (requests[p].endpoint = "prices")
    /\ \A t \in DOMAIN results :
          GaveData("snapshot", t) => results[t].source # "yfinance"
    /\ \A p, q \in 1..Len(assigned) : assigned[p] = assigned[q] => p = q

\* One ticker was recorded from yfinance after its snapshot request failed,
\* another from the snapshot path after its prices were requested.
C8_Witness ==
    /\ fpsPc = "done"
    /\ \E t \in DOMAIN results : results[t].source = "yfinance"
    /\ \E t \in DOMAIN results :
          /\ results[t].source = "absent"
          /\ \E p \in 1..Len(requests) :
                /\ requests[p].endpoint = "prices"
                /\ requests[p].ticker = t

\* C14: the all-clear message is printed only when every ticker of TICKERS
\* has been evaluated (has its entry in results) and each one is within the
\* 20% range with positive 3M and 6M returns.
C14_AllClearOnlyWhenEveryTickerInRange ==
    printed = "no alerts" =>
        \A k \in 1..NumTickers :
            /\ Tickers[k] \in DOMAIN results
            /\ results[Tickers[k]].within_range
            /\ results[Tickers[k]].return_3m > 0
            /\ results[Tickers[k]].return_6m > 0

\* ------------------------------------------------------------------------
\* Properties of the fetch with try/except (specification SpecFetch)
\* ------------------------------------------------------------------------

\* The tickers among the first n whose history() returned rows, in input
\* order.
RECURSIVE YieldedData(_)
YieldedData(n) ==
    IF n = 0 THEN <<>>
    ELSE IF \E p \in 1..Len(history_calls) :
               /\ history_calls[p].ticker = FetchTickers[n]
               /\ history_calls[p].outcome = "rows"
         THEN Append(YieldedData(n - 1), FetchTickers[n])
         ELSE YieldedData(n - 1)

\* C9: a ticker whose history fetch raises or is empty is left out and the
\* remaining tickers are still fetched: once the function has returned,
\* history() was called once for every ticker, in input order, and the
\* frame's columns are exactly the tickers that yielded data, in input
\* order; when no ticker yields data the frame is empty and main prints the
\* error and returns without computing any metric.
C9_FailedTickersLeftOutRestFetched ==
    /\ \A p \in 1..Len(history_calls) :
          p <= NumFetched /\ history_calls[p].ticker = FetchTickers[p]
    /\ fetchPc \in {"main", "exit", "metrics"} =>
          /\ Len(history_calls) = NumFetched
          /\ prices_frame.columns = YieldedData(NumFetched)
          /\ YieldedData(NumFetched) = <<>> =>
                FrameEmpty(prices_frame) /\ fetchPc # "metrics"
    /\ fetchPc = "metrics" => ~FrameEmpty(prices_frame)

\* The first ticker raised, the second came back empty, the later ones
\* yielded data and main went on to the metrics with exactly those columns.
C9_Witness ==
    /\ fetchPc = "metrics"
    /\ history_calls[1].outcome = "raises"
    /\ history_calls[2].outcome = "empty"
    /\ prices_frame.columns = SubSeq(FetchTickers, 3, NumFetched)

\* ------------------------------------------------------------------------
\* Properties of allocate (specification SpecAlloc)
\* ------------------------------------------------------------------------

\* Half of the thousand the returned amounts are rounded to.
RoundingSlack == (RoundTo * Scale) \div 2

\* C10: each position allocate returns amounts to at least min_w * capital
\* and at most max_w * capital, up to the final rounding to the nearest
\* $1,000.
C10_ReturnedWithinMinMax ==
    allocPc = "returned" =>
        \A t \in DOMAIN alloc :
            /\ ~IsNaN(alloc[t])
            /\ alloc[t] >= WeightAmount(capital, min_w) - RoundingSlack
            /\ alloc[t] <= WeightAmount(capital, max_w) + RoundingSlack

\* C11: a selected ticker whose 12w-2w momentum is zero or negative is
\* returned with no allocation: the capital goes to the selected tickers of
\* positive momentum only.
C11_NonPositiveMomentumGetsNothing ==
    allocPc = "returned" =>
        \A t \in top_tickers : mom_12w_2w[t] <= 0 => alloc[t] = 0

\* ------------------------------------------------------------------------
\* Properties of calculate_drawdown_metrics (specification SpecDD)
\* ------------------------------------------------------------------------

Rows(pr) == 0..(Len(pr) - 1)

\* The drawdown period a row lies in: the maximal run of rows below the
\* running peak around it.
PeriodOf(pr, row) ==
    {r \in Rows(pr) :
        \A k \in Rows(pr) :
            ((r <= k /\ k <= row) \/ (row <= k /\ k <= r)) => InDrawdown(pr, k)}

\* The rows at which the series is at its maximum drawdown.
WorstRows(pr) ==
    {r \in Rows(pr) : RatEq(Drawdown(pr, r), SeriesMaxDrawdown(pr))}

\* C15: max_dd_duration_days is the number of rows of the drawdown period
\* that contains the maximum drawdown (0 for a series never below its
\* running peak).
C15_DurationOfWorstDrawdown ==
    ddPc \in {"rolling", "done"} =>
        IF \E r \in Rows(price) : InDrawdown(price, r)
        THEN \E r \in WorstRows(price) :
                max_dd_duration = Cardinality(PeriodOf(price, r))
        ELSE max_dd_duration = 0

\* C17: worst_rolling_3m_dd is the least, over every window of `window`
\* consecutive rows, the one ending at the last row included, of the
\* maximum drawdown inside the window; a series with no complete window
\* gives max_drawdown.
C17_WorstOverEveryWindow ==
    ddPc = "done" =>
        IF Len(price) >= window
        THEN RatEq(worst_rolling_3m_dd,
                   RatMin({WindowDrawdown(price, lo, lo + window) :
                              lo \in 0..(Len(price) - window)}))
        ELSE RatEq(worst_rolling_3m_dd, max_dd)

\* ------------------------------------------------------------------------
\* Properties of calculate_downside_volatility (specification SpecDV)
\* ------------------------------------------------------------------------

\* C16: the downside volatility of every column is a defined, strictly
\* positive number, so the score's division is by neither zero nor an
\* undefined value.
C16_DownsideVolDefinedPositive ==
    /\ dvPc \in {"score", "done"} =>
          /\ ~IsNaNFraction(downside_vol)
          /\ downside_vol[1] > 0
    /\ dvPc = "done" => combined_score = "finite"

\* ------------------------------------------------------------------------
\* Specifications
\* ------------------------------------------------------------------------

\* apply_constraints
Init ==
    ACInit /\ TRIIdle /\ FPSIdle /\ FetchIdle /\ AllocIdle /\ DDIdle /\ DVIdle

Next == Pass \/ Exhaust

Spec == Init /\ [][Next]_vars

\* the total return index
InitTRI ==
    TRIInit /\ ACIdle /\ FPSIdle /\ FetchIdle /\ AllocIdle /\ DDIdle /\ DVIdle

NextTRI == TRIStep \/ TRIAppend

SpecTRI == InitTRI /\ [][NextTRI]_vars

\* fetch_portfolio_state.main
InitFPS ==
    FPSInit /\ ACIdle /\ TRIIdle /\ FetchIdle /\ AllocIdle /\ DDIdle /\ DVIdle

NextFPS == FetchSnapshot \/ YFinanceFallback \/ FetchHistorical \/ Summary

SpecFPS == InitFPS /\ [][NextFPS]_vars

\* fetch_total_return_index with try/except, and its main
InitFetch ==
    FetchInit /\ ACIdle /\ TRIIdle /\ FPSIdle /\ AllocIdle /\ DDIdle /\ DVIdle

NextFetch == FetchHistory \/ ReturnFrame \/ MainAfterFetch

SpecFetch == InitFetch /\ [][NextFetch]_vars

\* calculate_drawdown_metrics
InitDD ==
    DDInit /\ ACIdle /\ TRIIdle /\ FPSIdle /\ FetchIdle /\ AllocIdle /\ DVIdle

NextDD == ScanRow \/ ClosePeriods \/ RollWindow \/ ReturnMetrics

SpecDD == InitDD /\ [][NextDD]_vars

\* allocate
InitAlloc ==
    AllocInit /\ ACIdle /\ TRIIdle /\ FPSIdle /\ FetchIdle /\ DDIdle /\ DVIdle

NextAlloc == ClipPass \/ ReturnAlloc

SpecAlloc == InitAlloc /\ [][NextAlloc]_vars

\* calculate_downside_volatility and the score
InitDV ==
    DVInit /\ ACIdle /\ TRIIdle /\ FPSIdle /\ FetchIdle /\ AllocIdle /\ DDIdle

NextDV == DownsideVolatility \/ CombinedScore

SpecDV == InitDV /\ [][NextDV]_vars

====
